---------------------------- MODULE Spec2Model ----------------------------
(***************************************************************************)
(* A model of the CRM-ENV administrative backend: the user / invitation /  *)
(* audit routes of server/routes/users.js, the organization routes of      *)
(* server/routes/organizations.js, the request pipeline of                 *)
(* server/index.js and the frontend's AuthProvider                         *)
(* (src/contexts/AuthContext.tsx).                                         *)
(*                                                                         *)
(* A route handler is a sequence of `await query(...)` statements.  Each   *)
(* SQL statement executes atomically in the database; between two          *)
(* statements of one request the statements of other requests may run.     *)
(* A handler is therefore modelled as one action per statement: the action *)
(* executes the statement and the synchronous JavaScript that follows it   *)
(* up to the next await.  The arrival of a request, its middleware chain   *)
(* and its first statement form the handler's first action.                *)
(*                                                                         *)
(* Time is counted in hours.  Strings the code parses (path and query      *)
(* parameters) are sequences of one-character strings.                     *)
(***************************************************************************)
EXTENDS Integers, Sequences, FiniteSets, Bags, TLC

VARIABLES
    users,          \* table users: sequence of rows, id = index (AUTO_INCREMENT)
    invitations,    \* table user_invitations: set of rows
    nextInvId,      \* AUTO_INCREMENT counter of user_invitations
    audit_logs,     \* table audit_logs: sequence of rows, oldest first
    organizations,  \* table organizations: organization id -> row
    contacts,       \* table contacts: set of rows
    campaigns,      \* table campaigns: set of rows
    organization_settings,  \* table organization_settings: set of rows
    now,            \* the clock, in hours (NOW() and Date.now())
    reqs,           \* route handlers in flight: a bag of request records
    resp,           \* the request the last step completed, with its response
    answered,       \* pairs <<token, status>>: accept requests past their lookup, answered
    admitted,       \* number of handlers that got past their first statement
    registered,     \* pairs <<token, user id>>: the user rows accept inserted
    http,           \* one request travelling through the middleware pipeline
    auth            \* the state of the frontend's AuthProvider

vars == <<users, invitations, nextInvId, audit_logs, organizations, contacts,
          campaigns, organization_settings, now, reqs, resp, answered,
          admitted, registered, http, auth>>

-----------------------------------------------------------------------------
(* Bounds of the model *)

MaxAdmit == 2       \* handlers that get past their first statement
MaxInvs == 2        \* user_invitations rows a behaviour may create
MaxTicks == 1       \* times the clock advances

Slots == {1, 2}     \* one slot for each handler that can be in flight
Orgs == {1, 2}
NoId == 0           \* "no row": insertId / id of a lookup that found nothing
Null == -1          \* SQL NULL in a date column

-----------------------------------------------------------------------------
(* Strings and the two numeric readings the code gives them *)

Digits == <<"0", "1", "2", "3", "4", "5", "6", "7", "8", "9">>

IsDigit(c) == \E d \in 1..10 : Digits[d] = c

DigitVal(c) == (CHOOSE d \in 1..10 : Digits[d] = c) - 1

RECURSIVE Pow10(_)
Pow10(n) == IF n <= 0 THEN 1 ELSE 10 * Pow10(n - 1)

\* index of the first character at or after i that is not a digit
RECURSIVE DigitsEnd(_, _)
DigitsEnd(s, i) ==
    IF i <= Len(s) /\ IsDigit(s[i]) THEN DigitsEnd(s, i + 1) ELSE i

\* the value of the digits s[i..j-1], 0 when there are none
RECURSIVE DigitsVal(_, _, _)
DigitsVal(s, i, j) ==
    IF j <= i THEN 0 ELSE 10 * DigitsVal(s, i, j - 1) + DigitVal(s[j - 1])

\* index of the first character at or after i that is not a space
RECURSIVE SkipSpace(_, _)
SkipSpace(s, i) ==
    IF i <= Len(s) /\ s[i] = " " THEN SkipSpace(s, i + 1) ELSE i

HasSign(s, i) == i <= Len(s) /\ s[i] \in {"-", "+"}

Sign(s, i) == IF i <= Len(s) /\ s[i] = "-" THEN -1 ELSE 1

HexLower == <<"0", "1", "2", "3", "4", "5", "6", "7", "8", "9",
              "a", "b", "c", "d", "e", "f">>

HexUpper == <<"0", "1", "2", "3", "4", "5", "6", "7", "8", "9",
              "A", "B", "C", "D", "E", "F">>

IsHex(c) == \E d \in 1..16 : HexLower[d] = c \/ HexUpper[d] = c

HexVal(c) == (CHOOSE d \in 1..16 : HexLower[d] = c \/ HexUpper[d] = c) - 1

RECURSIVE HexEnd(_, _)
HexEnd(s, i) == IF i <= Len(s) /\ IsHex(s[i]) THEN HexEnd(s, i + 1) ELSE i

RECURSIVE HexDigitsVal(_, _, _)
HexDigitsVal(s, i, j) ==
    IF j <= i THEN 0 ELSE 16 * HexDigitsVal(s, i, j - 1) + HexVal(s[j - 1])

\* JavaScript parseInt(s) without a radix: leading spaces and an optional
\* sign are skipped; after "0x" or "0X" the longest prefix of hexadecimal
\* digits is read, otherwise the longest prefix of decimal digits; NaN when
\* there is no digit.  parseInt(undefined) is NaN.
ParseInt(s) ==
    LET w == SkipSpace(s, 1)
        b == IF HasSign(s, w) THEN w + 1 ELSE w
        hex == b + 1 <= Len(s) /\ s[b] = "0" /\ s[b + 1] \in {"x", "X"}
        d == IF hex THEN b + 2 ELSE b
        e == IF hex THEN HexEnd(s, d) ELSE DigitsEnd(s, d)
    IN IF e = d THEN [nan |-> TRUE, val |-> 0]
       ELSE [nan |-> FALSE,
             val |-> Sign(s, w) * (IF hex THEN HexDigitsVal(s, d, e)
                                   ELSE DigitsVal(s, d, e))]

\* MySQL's conversion of a string to a number when it is compared with an
\* integer column (`WHERE id = ?` with a string parameter): leading spaces,
\* optional sign, digits, optional fraction, optional exponent; what
\* follows is ignored.  The result is the pair mant, exp standing for
\* mant * 10^exp.
SqlNumber(s) ==
    LET w  == SkipSpace(s, 1)
        b  == IF HasSign(s, w) THEN w + 1 ELSE w
        ie == DigitsEnd(s, b)
        hasFrac == ie <= Len(s) /\ s[ie] = "."
        fb == IF hasFrac THEN ie + 1 ELSE ie
        fe == IF hasFrac THEN DigitsEnd(s, fb) ELSE ie
        none == (ie = b) /\ (fe = fb)
        hasE == ~none /\ fe <= Len(s) /\ s[fe] \in {"e", "E"}
        xs == IF hasE /\ HasSign(s, fe + 1) THEN fe + 2 ELSE fe + 1
        xe == IF hasE THEN DigitsEnd(s, xs) ELSE xs
        xv == IF hasE /\ xe > xs
              THEN Sign(s, fe + 1) * DigitsVal(s, xs, xe)
              ELSE 0
        mant == DigitsVal(s, b, ie) * Pow10(fe - fb) + DigitsVal(s, fb, fe)
    IN [mant |-> Sign(s, w) * (IF none THEN 0 ELSE mant), exp |-> xv - (fe - fb)]

\* the SQL predicate `id = ?` for an integer column and a string parameter
SqlIdEq(id, s) ==
    \E n \in {SqlNumber(s)} :
        IF n.exp >= 0 THEN n.mant * Pow10(n.exp) = id
        ELSE n.mant = id * Pow10(-n.exp)

-----------------------------------------------------------------------------
(* The tables *)

Roles == {"admin", "manager", "user"}                \* users.js:139

InviteTtlHours == 7 * 24                             \* users.js:61

TickHours == InviteTtlHours                          \* granularity of the clock

UserRow(o, e, r, st) ==
    [organization_id |-> o, email |-> e, role |-> r, status |-> st]

InvitationRow(i, o, e, r, t, x, by, at) ==
    [id |-> i, organization_id |-> o, email |-> e, role |-> r, token |-> t,
     expires_at |-> x, accepted_at |-> Null, invited_by |-> by, created_at |-> at]

AuditRow(o, u, a, rt, rid, old, new) ==
    [organization_id |-> o, user_id |-> u, action |-> a, resource_type |-> rt,
     resource_id |-> rid, old_values |-> old, new_values |-> new]

\* a users table without the unique index on email
EmailTaken_noIndex(e) == FALSE

\* users.email is UNIQUE (spec, data model: "email (unique globally)"): the
\* INSERT of a row whose email is present fails with a duplicate-key error.
EmailTaken(e) == \E i \in DOMAIN users : users[i].email = e

\* a lookup that ignores `expires_at > NOW()`
Pending_neverExpires(inv, t) == inv.accepted_at = Null

\* an invitation row that is neither accepted nor expired at time t
Pending(inv, t) == inv.accepted_at = Null /\ inv.expires_at > t

-----------------------------------------------------------------------------
(* Requests *)

NoLoc == [id |-> NoId, organization_id |-> 0, email |-> "", role |-> "",
          expires |-> 0]

Idle == [kind |-> "idle", caller |-> NoId, org |-> 0,
         param |-> <<>>, email |-> "", role |-> "", token |-> 0,
         pc |-> "idle", loc |-> NoLoc, insertId |-> NoId, changed |-> FALSE]

\* a response: the route, the statement that sent it, what the client gets
\* (status, body), the request it answers (req.user.id, the path parameter,
\* the body's email, role and token) and whether the request changed a row
NoResp == [kind |-> "none", at |-> "", status |-> 0, body |-> "",
           caller |-> NoId, param |-> <<>>, email |-> "", role |-> "",
           token |-> 0, changed |-> FALSE]

\* a request as it arrives; req.user = {id, organizationId, ...} is what
\* authenticateToken attached (0 on the public route)
Request(k, c) ==
    [Idle EXCEPT !.kind = k, !.caller = c,
                 !.org = IF c = NoId THEN 0 ELSE users[c].organization_id,
                 !.pc = "start"]

\* res.status(st).json({error: b}) or res.status(st).json({message: b})
\* sent by the statement at label r.pc
Respond(r, st, b) ==
    [kind |-> r.kind, at |-> r.pc, status |-> st, body |-> b,
     caller |-> r.caller, param |-> r.param, email |-> r.email,
     role |-> r.role, token |-> r.token, changed |-> r.changed]

\* The last step rejected a request at its first statement: no table and
\* no handler changed.  The state differs from the one before it in resp
\* alone, and every step it could take is taken from that state instead.
Rejected == resp.kind # "none" /\ resp.at = "start"

\* the handler r of route k is in flight, about to run its statement pc
At(r, k, pc) == ~Rejected /\ BagIn(r, reqs) /\ r.kind = k /\ r.pc = pc

\* number of handlers of route k in flight
InFlightOf(k) ==
    LET S == {x \in BagToSet(reqs) : x.kind = k}
    IN BagCardinality([x \in S |-> CopiesIn(x, reqs)])

\* a request is received while the budget lasts and a slot is free
CanStart ==
    /\ ~Rejected
    /\ admitted < MaxAdmit
    /\ BagCardinality(reqs) < Cardinality(Slots)

\* the arriving request r is answered by its first statement
Reject(r, st, b) ==
    /\ resp' = Respond(r, st, b)
    /\ UNCHANGED <<reqs, admitted>>

\* the arriving request r is through its first statement and awaits the
\* statement at label pc
Admit(r, pc) ==
    /\ admitted' = admitted + 1
    /\ reqs' = reqs (+) SetToBag({[r EXCEPT !.pc = pc]})
    /\ resp' = NoResp

\* the handler r, now with locals n, awaits its next statement at label pc
Await(r, n, pc) ==
    /\ reqs' = (reqs (-) SetToBag({r})) (+) SetToBag({[n EXCEPT !.pc = pc]})
    /\ resp' = NoResp
    /\ UNCHANGED admitted

\* the handler r sends its response and ends
Finish(r, st, b) ==
    /\ reqs' = reqs (-) SetToBag({r})
    /\ resp' = Respond(r, st, b)
    /\ UNCHANGED admitted

\* requirePermission(name) of middleware/auth.js (spec 4.1), which every
\* route but accept-invitation mounts before its handler: a caller whose
\* permission set lacks the route's permission is answered 403 and the
\* handler does not run.
Forbidden(c) ==
    /\ CanStart
    /\ Reject(Request("guarded", c), 403, "Insufficient permissions")
    /\ UNCHANGED <<users, invitations, nextInvId, audit_logs, organizations,
                   contacts, campaigns, organization_settings, now, answered,
                   registered, http, auth>>

DbUnchanged == UNCHANGED <<users, invitations, nextInvId, audit_logs>>

Frame == UNCHANGED <<organizations, contacts, campaigns,
                     organization_settings, now, http, auth>>

-----------------------------------------------------------------------------
(* POST /api/users/invite *)

existingUsers(email) == {i \in DOMAIN users : users[i].email = email}

existingInvitations(email, org) ==
    {inv \in invitations : /\ inv.email = email
                           /\ inv.organization_id = org
                           /\ Pending(inv, now)}

Invite(c, email, role) ==
    LET r == [Request("invite", c) EXCEPT
                 !.email = email,
                 !.role = IF role = "" THEN "user" ELSE role]
    IN /\ CanStart
       /\ nextInvId + InFlightOf("invite") <= MaxInvs
       /\ IF email = "" THEN Reject(r, 400, "Email is required")
          ELSE IF existingUsers(email) # {}
               THEN Reject(r, 400, "User with this email already exists")
          ELSE Admit(r, "existingInvitations")
       /\ DbUnchanged /\ Frame /\ UNCHANGED <<answered, registered>>

InviteCheck(r) ==
       /\ At(r, "invite", "existingInvitations")
       /\ IF existingInvitations(r.email, r.org) # {}
          THEN Finish(r, 400, "Invitation already sent to this email")
          ELSE Await(r, [r EXCEPT !.loc.expires = now + InviteTtlHours],
                     "insertInvitation")
       /\ DbUnchanged /\ Frame /\ UNCHANGED <<answered, registered>>

\* the token is uuidv4(): a value no other invitation has
InviteInsert(r) ==
       /\ At(r, "invite", "insertInvitation")
       /\ invitations' = invitations \cup
              {InvitationRow(nextInvId, r.org, r.email, r.role, nextInvId,
                             r.loc.expires, r.caller, now)}
       /\ nextInvId' = nextInvId + 1
       /\ Await(r, [r EXCEPT !.token = nextInvId, !.changed = TRUE], "audit")
       /\ UNCHANGED <<users, audit_logs, answered, registered>> /\ Frame

InviteAudit(r) ==
       /\ At(r, "invite", "audit")
       /\ audit_logs' = Append(audit_logs,
              AuditRow(r.org, r.caller, "user_invited", "user_invitation", NoId,
                       <<>>, <<"email", r.email, "role", r.role>>))
       /\ Finish(r, 201, "User invitation sent successfully")
       /\ UNCHANGED <<users, invitations, nextInvId, answered, registered>> /\ Frame

-----------------------------------------------------------------------------
(* POST /api/users/accept-invitation *)

\* the lookup without `AND ui.accepted_at IS NULL`
validInvitations_anyAccepted(token) ==
    {inv \in invitations : /\ inv.token = token
                           /\ inv.organization_id \in DOMAIN organizations
                           /\ inv.expires_at > now}

\* SELECT ui.* ... WHERE ui.token = ? AND ui.accepted_at IS NULL
\*                   AND ui.expires_at > NOW()
validInvitations(token) ==
    {inv \in invitations : /\ inv.token = token
                           /\ inv.organization_id \in DOMAIN organizations
                           /\ Pending(inv, now)}

\* complete: the body carries token, password, firstName and lastName
AcceptInvitation(token, complete) ==
    LET r == [Request("accept", NoId) EXCEPT !.token = token]
        found == validInvitations(token)
        inv == CHOOSE i \in found : TRUE
    IN /\ CanStart
       /\ IF ~complete THEN Reject(r, 400, "All fields are required")
          ELSE IF found = {}
               THEN Reject(r, 400, "Invalid or expired invitation")
          ELSE Admit([r EXCEPT !.loc = [id |-> inv.id,
                                          organization_id |-> inv.organization_id,
                                          email |-> inv.email,
                                          role |-> inv.role,
                                          expires |-> inv.expires_at]],
                     "insertUser")
       /\ DbUnchanged /\ Frame /\ UNCHANGED <<answered, registered>>

AcceptInsertUser(r) ==
       /\ At(r, "accept", "insertUser")
       /\ IF EmailTaken(r.loc.email)
          THEN /\ Finish(r, 500, "Failed to create account")
               /\ answered' = answered \cup {<<r.token, 500>>}
               /\ UNCHANGED <<users, registered>>
          ELSE /\ users' = Append(users,
                      UserRow(r.loc.organization_id, r.loc.email, r.loc.role,
                              "active"))
               /\ registered' = registered \cup {<<r.token, Len(users) + 1>>}
               /\ Await(r, [r EXCEPT !.insertId = Len(users) + 1,
                                      !.changed = TRUE],
                        "markAccepted")
               /\ UNCHANGED answered
       /\ UNCHANGED <<invitations, nextInvId, audit_logs>> /\ Frame

AcceptMarkAccepted(r) ==
       /\ At(r, "accept", "markAccepted")
       /\ invitations' =
              {IF inv.id = r.loc.id THEN [inv EXCEPT !.accepted_at = now]
               ELSE inv : inv \in invitations}
       /\ Await(r, r, "audit")
       /\ UNCHANGED <<users, nextInvId, audit_logs, answered, registered>> /\ Frame

AcceptAudit(r) ==
       /\ At(r, "accept", "audit")
       /\ audit_logs' = Append(audit_logs,
              AuditRow(r.loc.organization_id, r.insertId, "user_registered",
                       "user", r.insertId, <<>>,
                       <<"email", r.loc.email, "role", r.loc.role>>))
       /\ Finish(r, 200, "Account created successfully")
       /\ answered' = answered \cup {<<r.token, 200>>}
       /\ UNCHANGED <<users, invitations, nextInvId, registered>> /\ Frame

-----------------------------------------------------------------------------
(* PUT /api/users/:userId/role *)

\* the lookup without `AND organization_id = ?`
usersOfOrg_anyOrg(userId, org) ==
    {i \in DOMAIN users : SqlIdEq(i, userId)}

\* SELECT ... FROM users WHERE id = ? AND organization_id = ?
usersOfOrg(userId, org) ==
    {i \in DOMAIN users : SqlIdEq(i, userId) /\ users[i].organization_id = org}

UpdateRole(c, userId, role) ==
    LET r == [Request("role", c) EXCEPT !.param = userId, !.role = role]
        found == usersOfOrg(userId, r.org)
        u == CHOOSE i \in found : TRUE
    IN /\ CanStart
       /\ IF role \notin Roles THEN Reject(r, 400, "Invalid role")
          ELSE IF found = {} THEN Reject(r, 404, "User not found")
          ELSE Admit([r EXCEPT !.loc.id = u, !.loc.role = users[u].role],
                     "update")
       /\ DbUnchanged /\ Frame /\ UNCHANGED <<answered, registered>>

\* UPDATE users SET role = ? WHERE id = ?
UpdateRoleSet(r) ==
       /\ At(r, "role", "update")
       /\ users' = [i \in DOMAIN users |->
                       IF SqlIdEq(i, r.param)
                       THEN [users[i] EXCEPT !.role = r.role] ELSE users[i]]
       /\ Await(r, [r EXCEPT !.changed = (users' # users)], "audit")
       /\ UNCHANGED <<invitations, nextInvId, audit_logs, answered, registered>>
       /\ Frame

UpdateRoleAudit(r) ==
       /\ At(r, "role", "audit")
       /\ audit_logs' = Append(audit_logs,
              AuditRow(r.org, r.caller, "user_role_updated", "user", r.loc.id,
                       <<"role", r.loc.role>>, <<"role", r.role>>))
       /\ Finish(r, 200, "User role updated successfully")
       /\ UNCHANGED <<users, invitations, nextInvId, answered, registered>>
       /\ Frame

-----------------------------------------------------------------------------
(* PUT /api/users/:userId/deactivate *)

\* parseInt(userId) === req.user.id
IsCurrentUser(userId, id) ==
    LET n == ParseInt(userId) IN ~n.nan /\ n.val = id

Deactivate(c, userId) ==
    LET r == [Request("deactivate", c) EXCEPT !.param = userId]
        found == usersOfOrg(userId, r.org)
        u == CHOOSE i \in found : TRUE
    IN /\ CanStart
       /\ IF found = {} THEN Reject(r, 404, "User not found")
          ELSE IF IsCurrentUser(userId, r.caller)
               THEN Reject(r, 400, "Cannot deactivate your own account")
          ELSE Admit([r EXCEPT !.loc.id = u], "update")
       /\ DbUnchanged /\ Frame /\ UNCHANGED <<answered, registered>>

\* an update that flips the status instead of setting it
Deactivated_toggled(row) ==
    [row EXCEPT !.status = IF row.status = "inactive" THEN "active"
                           ELSE "inactive"]

\* SET status = "inactive"
Deactivated(row) == [row EXCEPT !.status = "inactive"]

\* UPDATE users SET status = "inactive" WHERE id = ?
DeactivateSet(r) ==
       /\ At(r, "deactivate", "update")
       /\ users' = [i \in DOMAIN users |->
                       IF SqlIdEq(i, r.param) THEN Deactivated(users[i])
                       ELSE users[i]]
       /\ Await(r, [r EXCEPT !.changed = (users' # users)], "audit")
       /\ UNCHANGED <<invitations, nextInvId, audit_logs, answered, registered>>
       /\ Frame

DeactivateAudit(r) ==
       /\ At(r, "deactivate", "audit")
       /\ audit_logs' = Append(audit_logs,
              AuditRow(r.org, r.caller, "user_deactivated", "user", r.loc.id,
                       <<>>, <<"status", "inactive">>))
       /\ Finish(r, 200, "User deactivated successfully")
       /\ UNCHANGED <<users, invitations, nextInvId, answered, registered>>
       /\ Frame

-----------------------------------------------------------------------------
(* DELETE /api/users/invitations/:invitationId *)

\* SELECT id, email FROM user_invitations WHERE id = ? AND organization_id = ?
invitationsOfOrg(invitationId, org) ==
    {inv \in invitations : /\ SqlIdEq(inv.id, invitationId)
                           /\ inv.organization_id = org}

CancelInvitation(c, invitationId) ==
    LET r == [Request("cancel", c) EXCEPT !.param = invitationId]
        found == invitationsOfOrg(invitationId, r.org)
        inv == CHOOSE i \in found : TRUE
    IN /\ CanStart
       /\ IF found = {} THEN Reject(r, 404, "Invitation not found")
          ELSE Admit([r EXCEPT !.loc.id = inv.id, !.loc.email = inv.email],
                     "delete")
       /\ DbUnchanged /\ Frame /\ UNCHANGED <<answered, registered>>

\* DELETE FROM user_invitations WHERE id = ?
CancelDelete(r) ==
       /\ At(r, "cancel", "delete")
       /\ invitations' = {inv \in invitations : ~SqlIdEq(inv.id, r.param)}
       /\ Await(r, [r EXCEPT !.changed = (invitations' # invitations)], "audit")
       /\ UNCHANGED <<users, nextInvId, audit_logs, answered, registered>>
       /\ Frame

CancelAudit(r) ==
       /\ At(r, "cancel", "audit")
       /\ audit_logs' = Append(audit_logs,
              AuditRow(r.org, r.caller, "invitation_cancelled",
                       "user_invitation", r.loc.id,
                       <<"email", r.loc.email>>, <<>>))
       /\ Finish(r, 200, "Invitation cancelled successfully")
       /\ UNCHANGED <<users, invitations, nextInvId, answered, registered>>
       /\ Frame

-----------------------------------------------------------------------------
(* A statement that fails *)

\* the body of the 500 each route's catch block sends
FailureMessage(k) ==
    CASE k = "invite" -> "Failed to invite user"
      [] k = "accept" -> "Failed to create account"
      [] k = "role" -> "Failed to update user role"
      [] k = "deactivate" -> "Failed to deactivate user"
      [] k = "cancel" -> "Failed to cancel invitation"

\* The statement the handler r awaits is rejected by the database (a lost
\* connection, a lock timeout): the handler's catch block answers 500.
\* What the statements before it wrote stays written.  Failures are
\* followed for the handlers that have written: the failure of an earlier
\* statement leaves the tables as the request found them.
QueryFails(r) ==
    /\ ~Rejected
    /\ BagIn(r, reqs)
    /\ r.changed
    /\ Finish(r, 500, FailureMessage(r.kind))
    /\ answered' = IF r.kind = "accept" THEN answered \cup {<<r.token, 500>>}
                   ELSE answered
    /\ DbUnchanged /\ Frame /\ UNCHANGED registered

-----------------------------------------------------------------------------
(* The clock *)

Tick ==
    /\ ~Rejected
    /\ now < MaxTicks * TickHours
    /\ now' = now + TickHours
    /\ resp' = NoResp
    /\ UNCHANGED <<users, invitations, nextInvId, audit_logs, organizations,
                   contacts, campaigns, organization_settings, reqs, answered,
                   admitted, registered, http, auth>>

-----------------------------------------------------------------------------
(* The inputs of the requests *)

Callers == {1, 2}                  \* one administrator of each organization

Emails == {"", "a", "x"}           \* "": the body has no email

InviteRoles == {"", "root"}        \* "": the body has no role

NewRoles == {"admin", "root"}

UserIds == {<<"1">>, <<"3">>, <<"4">>, <<"0", ".", "1", "e", "1">>}

InvitationIds == {<<"1">>, <<"2">>}

Tokens == 1..MaxInvs

OrganizationRow(n, pl, cl, el) ==
    [name |-> n, plan |-> pl, contact_limit |-> cl, monthly_email_limit |-> el]

NoHttp == [pc |-> "none"]

NoAuth == [pc |-> "none"]

\* The database at the start: two organizations with an administrator
\* each, a further user in organization 1, and no invitation, or the
\* pending invitation (and audit entry) that user 1's invite of "x" leaves,
\* or that one and the one user 2's invite of "x" leaves in organization 2.
InitialInvitations ==
    {InvitationRow(1, 1, "x", "user", 1, InviteTtlHours, 1, 0)}

InitialAudit ==
    <<AuditRow(1, 1, "user_invited", "user_invitation", NoId, <<>>,
               <<"email", "x", "role", "user">>)>>

InitialInvitationsTwoOrgs ==
    InitialInvitations \cup
        {InvitationRow(2, 2, "x", "user", 2, InviteTtlHours, 2, 0)}

InitialAuditTwoOrgs ==
    Append(InitialAudit,
           AuditRow(2, 2, "user_invited", "user_invitation", NoId, <<>>,
                    <<"email", "x", "role", "user">>))

Init ==
    /\ users = <<UserRow(1, "a", "admin", "active"),
                 UserRow(2, "b", "admin", "active"),
                 UserRow(1, "c", "user", "active")>>
    /\ \/ invitations = {} /\ nextInvId = 1 /\ audit_logs = <<>>
       \/ /\ invitations = InitialInvitations
          /\ nextInvId = 2
          /\ audit_logs = InitialAudit
       \/ /\ invitations = InitialInvitationsTwoOrgs
          /\ nextInvId = 3
          /\ audit_logs = InitialAuditTwoOrgs
    /\ admitted = 0
    /\ organizations = [o \in Orgs |-> OrganizationRow("org", "free", 100, 1000)]
    /\ contacts = {}
    /\ campaigns = {}
    /\ now = 0
    /\ reqs = EmptyBag
    /\ resp = NoResp
    /\ answered = {}
    /\ registered = {}
    /\ http = NoHttp
    /\ organization_settings = {}
    /\ auth = NoAuth

Next ==
    \/ \E c \in Callers : Forbidden(c)
    \/ \E c \in Callers, e \in Emails, ro \in InviteRoles : Invite(c, e, ro)
    \/ \E r \in BagToSet(reqs) : InviteCheck(r)
    \/ \E r \in BagToSet(reqs) : InviteInsert(r)
    \/ \E r \in BagToSet(reqs) : InviteAudit(r)
    \/ \E t \in Tokens, f \in BOOLEAN : AcceptInvitation(t, f)
    \/ \E r \in BagToSet(reqs) : AcceptInsertUser(r)
    \/ \E r \in BagToSet(reqs) : AcceptMarkAccepted(r)
    \/ \E r \in BagToSet(reqs) : AcceptAudit(r)
    \/ \E c \in Callers, u \in UserIds, ro \in NewRoles : UpdateRole(c, u, ro)
    \/ \E r \in BagToSet(reqs) : UpdateRoleSet(r)
    \/ \E r \in BagToSet(reqs) : UpdateRoleAudit(r)
    \/ \E c \in Callers, u \in UserIds : Deactivate(c, u)
    \/ \E r \in BagToSet(reqs) : DeactivateSet(r)
    \/ \E r \in BagToSet(reqs) : DeactivateAudit(r)
    \/ \E c \in Callers, i \in InvitationIds : CancelInvitation(c, i)
    \/ \E r \in BagToSet(reqs) : CancelDelete(r)
    \/ \E r \in BagToSet(reqs) : CancelAudit(r)
    \/ Tick

Spec == Init /\ [][Next]_vars

\* the same program on a database whose statements may fail
NextFault ==
    \/ Next
    \/ \E r \in BagToSet(reqs) : QueryFails(r)

SpecFault == Init /\ [][NextFault]_vars

-----------------------------------------------------------------------------
(* Accepting an invitation *)

\* the user rows before the step are kept and exactly one row is added
OneUserAdded == /\ Len(users') = Len(users) + 1
                /\ SubSeq(users', 1, Len(users)) = users

\* the row the step added is the user the invitations of token t describe
AddedIsInvited(t) ==
    \A inv \in invitations :
        inv.token = t =>
            users'[Len(users')] =
                UserRow(inv.organization_id, inv.email, inv.role, "active")

\* after the step every invitation of token t carries an acceptance time
MarkedAccepted(t) ==
    \A inv \in invitations' : inv.token = t => inv.accepted_at # Null

\* the state after an accept-invitation request was answered 200: one user
\* came from its token and the token's invitation is marked accepted
AcceptedOnce ==
    (resp.kind = "accept" /\ resp.status = 200) =>
        /\ Cardinality({p \in registered : p[1] = resp.token}) = 1
        /\ \A inv \in invitations :
               inv.token = resp.token => inv.accepted_at # Null

\* C1 as the claim states it: every accept-invitation request whose token
\* matched a pending, unexpired invitation creates exactly one user row with
\* the invitation's email, role and organization and status 'active' and
\* sets accepted_at, and every attempt with the same token made after such
\* a request was answered gets 400 and creates no user.
C1_Unconditional ==
    /\ []AcceptedOnce
    /\ [][/\ \A r \in BagToSet(reqs) :
               /\ AcceptInsertUser(r) => OneUserAdded /\ AddedIsInvited(r.token)
               /\ AcceptMarkAccepted(r) => MarkedAccepted(r.token)
          /\ \A t \in Tokens, f \in BOOLEAN :
               (AcceptInvitation(t, f) /\ \E st \in {200, 500} : <<t, st>> \in answered)
                   => (resp'.status = 400 /\ users' = users)]_vars

\* C1, amended: the request creates exactly one user row with the
\* invitation's email, role and organization and status 'active' when no
\* user holds the invitation's email at the time of its INSERT, and is
\* answered 500 without creating a user otherwise; its UPDATE marks the
\* invitation accepted; a request answered 200 has created exactly one user
\* and left the invitation marked; every attempt with the same token made
\* after a request answered 200 gets 400 and creates no user.
C1_AcceptCreatesOneUser ==
    /\ []AcceptedOnce
    /\ [][/\ \A r \in BagToSet(reqs) :
               /\ AcceptInsertUser(r) =>
                      IF EmailTaken(r.loc.email)
                      THEN users' = users /\ resp'.status = 500
                      ELSE OneUserAdded /\ AddedIsInvited(r.token)
               /\ AcceptMarkAccepted(r) => MarkedAccepted(r.token)
          /\ \A t \in Tokens, f \in BOOLEAN :
               (AcceptInvitation(t, f) /\ <<t, 200>> \in answered)
                   => (resp'.status = 400 /\ users' = users)]_vars

\* a second attempt with a token whose first acceptance was answered 200 is
\* answered 400, the user the first one created being in the table
C1_SecondAttemptRejected ==
    /\ resp.kind = "accept" /\ resp.status = 400
    /\ resp.body = "Invalid or expired invitation"
    /\ <<resp.token, 200>> \in answered
    /\ \E p \in registered :
          /\ p[1] = resp.token
          /\ users[p[2]] = UserRow(1, "x", "user", "active")

-----------------------------------------------------------------------------
(* Single use of an invitation *)

\* the ids of the user rows created from the invitation of token t
CreatedFrom(t) == {p[2] : p \in {q \in registered : q[1] = t}}

\* the 'user_registered' audit entries written for the invitation of token t
RegisteredEntries(t) ==
    {i \in DOMAIN audit_logs :
        /\ audit_logs[i].action = "user_registered"
        /\ audit_logs[i].resource_id \in CreatedFrom(t)}

\* C2: whatever the interleaving of the accept-invitation requests that
\* carry one token, at most one user row is created from the token's
\* invitation and at most one 'user_registered' audit entry is written for it.
C2_SingleUse ==
    \A t \in Tokens :
        /\ Cardinality(CreatedFrom(t)) <= 1
        /\ Cardinality(RegisteredEntries(t)) <= 1

\* two requests with one token overlapped: both passed the lookup, one was
\* answered 200 with its user and audit entry written, the other 500
C2_RaceLostByOne ==
    \E t \in Tokens :
        /\ <<t, 200>> \in answered
        /\ <<t, 500>> \in answered
        /\ Cardinality(CreatedFrom(t)) = 1
        /\ Cardinality(RegisteredEntries(t)) = 1

-----------------------------------------------------------------------------
(* Inviting an email twice *)

\* the invitations of one organization for one email, pending at time t
PendingFor(o, e, t) ==
    {inv \in invitations :
        inv.organization_id = o /\ inv.email = e /\ Pending(inv, t)}

\* C3: an invite whose lookup finds a pending, unexpired invitation for the
\* email in the caller's organization is answered 400 and adds no
\* user_invitations row and no audit_logs row, and an organization never
\* holds two pending, unexpired invitations for the same email.
C3_OnePendingInvitation ==
    /\ [](\A o \in Orgs, e \in Emails : Cardinality(PendingFor(o, e, now)) <= 1)
    /\ [][\A r \in BagToSet(reqs) :
             (InviteCheck(r) /\ PendingFor(r.org, r.email, now) # {})
                 => /\ resp'.status = 400
                    /\ UNCHANGED <<invitations, audit_logs>>]_vars

-----------------------------------------------------------------------------
(* Deactivating oneself *)

\* C4: a deactivate request whose userId is the caller's own user id is
\* answered 400, and the caller's status and the audit log are as they
\* were: the caller is active and no entry records the caller's
\* deactivation.
C4_SelfDeactivationRejected ==
    (resp.kind = "deactivate" /\ SqlIdEq(resp.caller, resp.param)) =>
        /\ resp.status = 400
        /\ users[resp.caller].status = "active"
        /\ \A i \in DOMAIN audit_logs :
               ~(/\ audit_logs[i].action = "user_deactivated"
                 /\ audit_logs[i].resource_id = resp.caller)

-----------------------------------------------------------------------------
(* One audit entry for each change *)

MutatingRoutes == {"invite", "accept", "role", "deactivate", "cancel"}

\* the request the response answers wrote its audit entry: the INSERT into
\* audit_logs is the statement that sends the 200 or 201
Logged(rs) == rs.at = "audit" /\ rs.status \in {200, 201}

\* C6: when the request of a mutating operation has finished, with a
\* success response or with a 500, it has written its audit entry if it
\* changed a row, and has written none if it changed none.
C6_OneEntryPerChange ==
    resp.kind \in MutatingRoutes => (resp.changed <=> Logged(resp))

-----------------------------------------------------------------------------
(* Other tenants' rows *)

OrgOf(c) == users[c].organization_id

TenantRoutes == {"role", "deactivate", "cancel"}

\* the target p of a request of route k by caller c is no row of the
\* caller's organization
Foreign(k, c, p) ==
    IF k = "cancel"
    THEN ~\E inv \in invitations :
             SqlIdEq(inv.id, p) /\ inv.organization_id = OrgOf(c)
    ELSE ~\E i \in DOMAIN users :
             SqlIdEq(i, p) /\ users[i].organization_id = OrgOf(c)

\* the step answers a request of the three routes whose target is foreign
ForeignAnswered ==
    /\ resp'.kind \in TenantRoutes
    /\ resp'.at = "start"
    /\ Foreign(resp'.kind, resp'.caller, resp'.param)

\* no request of the three routes whose target is foreign gets past its
\* lookup in the step
NoForeignAdmitted ==
    \A r \in BagToSet(reqs') :
        (/\ admitted' > admitted
         /\ CopiesIn(r, reqs') > CopiesIn(r, reqs)
         /\ r.kind \in TenantRoutes) => ~Foreign(r.kind, r.caller, r.param)

\* the rows a statement of a handler of the three routes changes or
\* deletes in the step are rows of the organization of the handler's caller
TouchOwnRows ==
    \A r \in BagToSet(reqs) :
        (r.kind \in TenantRoutes /\ CopiesIn(r, reqs') < CopiesIn(r, reqs)) =>
            /\ \A i \in DOMAIN users :
                   users'[i] # users[i]
                       => users[i].organization_id = OrgOf(r.caller)
            /\ \A inv \in invitations :
                   inv \notin invitations'
                       => inv.organization_id = OrgOf(r.caller)

\* C7 as the claim states it: a role update, a deactivation or a
\* cancellation whose target is no row of the caller's organization is
\* answered 404 and leaves users, user_invitations and audit_logs
\* unchanged, and every row these operations change or delete is a row of
\* the caller's organization.
C7_Always404 ==
    [][/\ ForeignAnswered =>
            /\ resp'.status = 404
            /\ UNCHANGED <<users, invitations, audit_logs>>
       /\ NoForeignAdmitted
       /\ TouchOwnRows]_vars

\* C7, amended: the same, for the requests that reach the lookup: a role
\* update is answered 404 when its role is one of admin, manager and user
\* (another role is answered 400 before the lookup, the tables unchanged).
C7_OtherTenantsUntouched ==
    [][/\ ForeignAnswered =>
            /\ resp'.status =
                   IF resp'.kind = "role" /\ resp'.role \notin Roles
                   THEN 400 ELSE 404
            /\ UNCHANGED <<users, invitations, audit_logs>>
       /\ NoForeignAdmitted
       /\ TouchOwnRows]_vars

\* a role update aimed at a user of another organization was answered 404
\* and that user's role is the one it had
C7_ForeignUserNotFound ==
    /\ resp.kind = "role" /\ resp.status = 404
    /\ \E i \in DOMAIN users :
          /\ SqlIdEq(i, resp.param)
          /\ users[i].organization_id # OrgOf(resp.caller)
          /\ users[i].role = "admin"

-----------------------------------------------------------------------------
(* The request pipeline of server/index.js *)

Methods == {"GET", "POST", "PUT"}

\* Content-Type of the request
ContentTypes == {"application/json", "application/x-www-form-urlencoded",
                 "text/plain"}

\* what the request carries: no body at all, an empty body, a JSON object
\* or array, a JSON value that is neither (a number, a string, true, null),
\* or text that is not JSON
Bodies == {"none", "empty", "object", "scalar", "malformed"}

Paths == {"/api/users/invite", "/api/users/3/deactivate", "/api/health",
          "/api/nowhere"}

NoError == [set |-> FALSE, syntax |-> FALSE, status |-> 0, body |-> FALSE]

\* a request as the server receives it; limited: the client's address has
\* used up its rate-limit window
HttpRequest(m, ct, b, p, lim) ==
    [method |-> m, ctype |-> ct, body |-> b, path |-> p, limited |-> lim,
     pc |-> "limiter", err |-> NoError, sent |-> <<>>, routeRan |-> FALSE]

\* res.status(st).json({error: e}); what is sent after the first response
\* does not reach the client but counts as a response sent
Send(h, st, e) == [h EXCEPT !.sent = Append(@, [status |-> st, error |-> e])]

\* JSON.parse(buf) of the verify callback succeeds
JsonParses(b) == b \in {"object", "scalar"}

\* a method and path one of the mounted routers or app.get serves
RouteMatches(m, p) ==
    \/ m = "POST" /\ p = "/api/users/invite"
    \/ m = "PUT" /\ p = "/api/users/3/deactivate"
    \/ m = "GET" /\ p = "/api/health"

HttpStep(h) == http' = h /\ UNCHANGED <<users, invitations, nextInvId,
                   audit_logs, organizations, contacts, campaigns,
                   organization_settings, now, reqs, resp, answered, admitted,
                   registered, auth>>

\* express-rate-limit: over the limit the request is answered 429
Limiter ==
    /\ http.pc = "limiter"
    /\ HttpStep(IF http.limited
                THEN [Send(http, 429, "Too many requests from this IP, please try again later.")
                         EXCEPT !.pc = "done"]
                ELSE [http EXCEPT !.pc = "json"])

\* express.json with the verify callback.  The parser passes a request
\* without a body or of another content type on; it reads the body, calls
\* verify, which on a JSON.parse failure sends 400 'Invalid JSON' and
\* throws an Error the parser hands to next() as a 403 error carrying the
\* body; then the strict parser takes an empty body as {} and rejects a
\* JSON value that is no object or array with a SyntaxError of status 400
\* carrying the body.
JsonBody ==
    /\ http.pc = "json"
    /\ HttpStep(
         IF http.body = "none" \/ http.ctype # "application/json"
         THEN [http EXCEPT !.pc = "urlencoded"]
         ELSE IF ~JsonParses(http.body)
         THEN [Send(http, 400, "Invalid JSON") EXCEPT
                  !.pc = "urlencoded",
                  !.err = [set |-> TRUE, syntax |-> FALSE, status |-> 403,
                           body |-> TRUE]]
         ELSE IF http.body = "scalar"
         THEN [http EXCEPT
                  !.pc = "urlencoded",
                  !.err = [set |-> TRUE, syntax |-> TRUE, status |-> 400,
                           body |-> TRUE]]
         ELSE [http EXCEPT !.pc = "urlencoded"])

\* express.urlencoded: skipped when an error is pending; parses a form body
UrlEncoded ==
    /\ http.pc = "urlencoded"
    /\ HttpStep([http EXCEPT !.pc = "logging"])

\* the logging middleware: skipped when an error is pending; calls next()
Logging ==
    /\ http.pc = "logging"
    /\ HttpStep([http EXCEPT !.pc = "jsonError"])

\* the error handler for JSON parsing: runs when an error is pending
JsonErrorHandler ==
    /\ http.pc = "jsonError"
    /\ HttpStep(
         IF http.err.set /\ http.err.syntax /\ http.err.status = 400
                         /\ http.err.body
         THEN [Send(http, 400, "Invalid JSON in request body")
                  EXCEPT !.pc = "done"]
         ELSE [http EXCEPT !.pc = "routes"])

\* the routers and the health check: skipped when an error is pending; a
\* matching route runs its handler, which answers the request
Routes ==
    /\ http.pc = "routes"
    /\ HttpStep(
         IF ~http.err.set /\ RouteMatches(http.method, http.path)
         THEN [Send(http, 200, "") EXCEPT !.pc = "done", !.routeRan = TRUE]
         ELSE [http EXCEPT !.pc = "globalError"])

\* the global error handler: runs when an error is pending and answers 500
\* unless the response has been sent
GlobalErrorHandler ==
    /\ http.pc = "globalError"
    /\ HttpStep(
         IF ~http.err.set THEN [http EXCEPT !.pc = "notFound"]
         ELSE IF http.sent = <<>>
         THEN [Send(http, 500, "Internal server error") EXCEPT !.pc = "done"]
         ELSE [http EXCEPT !.pc = "done"])

\* the 404 handler
NotFound ==
    /\ http.pc = "notFound"
    /\ HttpStep([Send(http, 404, "API endpoint not found") EXCEPT !.pc = "done"])

InitHttp ==
    /\ users = <<>> /\ invitations = {} /\ nextInvId = 1 /\ audit_logs = <<>>
    /\ organizations = <<>> /\ contacts = {} /\ campaigns = {} /\ now = 0
    /\ reqs = EmptyBag /\ resp = NoResp /\ answered = {} /\ admitted = 0
    /\ registered = {} /\ organization_settings = {} /\ auth = NoAuth
    /\ \E m \in Methods, ct \in ContentTypes, b \in Bodies, p \in Paths,
          lim \in BOOLEAN : http = HttpRequest(m, ct, b, p, lim)

NextHttp ==
    \/ Limiter
    \/ JsonBody
    \/ UrlEncoded
    \/ Logging
    \/ JsonErrorHandler
    \/ Routes
    \/ GlobalErrorHandler
    \/ NotFound

SpecHttp == InitHttp /\ [][NextHttp]_vars

\* C8: a POST or PUT of content type application/json whose body is not
\* valid JSON, from a client within its rate limit, is answered with status
\* 400 and body {error: "Invalid JSON in request body"}, exactly one
\* response is sent for it, and no route handler runs for it.
C8_MalformedJsonRejected ==
    (/\ http.pc = "done"
     /\ http.method \in {"POST", "PUT"}
     /\ http.ctype = "application/json"
     /\ http.body = "malformed"
     /\ ~http.limited) =>
        /\ http.sent = <<[status |-> 400, error |-> "Invalid JSON in request body"]>>
        /\ ~http.routeRan

-----------------------------------------------------------------------------
(* GET /api/organizations and GET /api/organizations/usage *)

ContactRow(i, o, st) == [id |-> i, organization_id |-> o, status |-> st]

CampaignRow(i, o, at, n) ==
    [id |-> i, organization_id |-> o, sent_at |-> at, send_count |-> n]

\* the users table as a set of rows that carry their id
UserRows == {[id |-> i, organization_id |-> users[i].organization_id,
              status |-> users[i].status] : i \in DOMAIN users}

\* the organizations table as a set of rows that carry their id
OrganizationRows ==
    {[id |-> o, row |-> organizations[o]] : o \in DOMAIN organizations}

\* the right side of a LEFT JOIN: the matching rows, or one row of NULLs
NullRow == [id |-> Null]

OrNull(S) == IF S = {} THEN {NullRow} ELSE S

\* COUNT(DISTINCT x.id) over the joined rows J, x the k-th table of the join
CountDistinct(J, k) == Cardinality({j[k].id : j \in J} \ {Null})

\* the join of GET / without its condition o.id = u.organization_id
activeUsersOf_anyOrg(us, o) == {u \in us : u.status = "active"}

\* LEFT JOIN users u ON o.id = u.organization_id AND u.status = 'active'
activeUsersOf(us, o) ==
    {u \in us : u.organization_id = o /\ u.status = "active"}

\* LEFT JOIN contacts c ON o.id = c.organization_id
contactsOf(cs, o) == {c \in cs : c.organization_id = o}

\* LEFT JOIN campaigns cam ON o.id = cam.organization_id
campaignsOf(ms, o) == {m \in ms : m.organization_id = o}

\* the rows the SELECT of GET / returns for organization id o, on the tables
\* os, us, cs, ms: one row for each organization of that id (GROUP BY o.id)
OrganizationDetails(os, us, cs, ms, o) ==
    {LET J == OrNull(activeUsersOf(us, o)) \X OrNull(contactsOf(cs, o))
                  \X OrNull(campaignsOf(ms, o))
     IN [id |-> org.id, row |-> org.row,
         user_count |-> CountDistinct(J, 1),
         contact_count |-> CountDistinct(J, 2),
         campaign_count |-> CountDistinct(J, 3)] : org \in {x \in os : x.id = o}}

GetOrganization(c) ==
    LET found == OrganizationDetails(OrganizationRows, UserRows, contacts,
                                     campaigns, users[c].organization_id)
    IN /\ resp.kind = "none"
       /\ resp' = IF found = {}
                  THEN [kind |-> "organization", status |-> 404,
                        caller |-> c, body |-> "Organization not found"]
                  ELSE [kind |-> "organization", status |-> 200,
                        caller |-> c, body |-> CHOOSE x \in found : TRUE]
       /\ UNCHANGED <<users, invitations, nextInvId, audit_logs, organizations,
                      contacts, campaigns, organization_settings, now, reqs,
                      answered, admitted, registered, http, auth>>

MonthHours == 30 * 24       \* INTERVAL 1 MONTH, taken as 30 days

\* LEFT JOIN contacts c ON o.id = c.organization_id AND c.status = 'active'
activeContactsOf(cs, o) ==
    {c \in cs : c.organization_id = o /\ c.status = "active"}

\* LEFT JOIN campaigns cam ON o.id = cam.organization_id
\*     AND cam.sent_at >= DATE_SUB(NOW(), INTERVAL 1 MONTH)
\* (a campaign not sent has sent_at NULL and does not join)
campaignsOfMonth(ms, o, t) ==
    {m \in ms : /\ m.organization_id = o
                /\ m.sent_at # Null
                /\ m.sent_at >= t - MonthHours}

\* SUM(cam.send_count) over the joined rows J, NULLs skipped, and
\* COALESCE(..., 0) for the sum of no value
RECURSIVE SumSendCount(_)
SumSendCount(J) ==
    IF J = {} THEN 0
    ELSE LET j == CHOOSE x \in J : TRUE
         IN (IF j[2] = NullRow THEN 0 ELSE j[2].send_count)
                + SumSendCount(J \ {j})

\* limit > 0 ? (x / limit * 100) : 0, as the exact fraction num / den
Percentage(x, limit) ==
    IF limit > 0 THEN [num |-> x * 100, den |-> limit]
    ELSE [num |-> 0, den |-> 1]

Usage(c) ==
    LET o == users[c].organization_id
        J == OrNull(activeContactsOf(contacts, o))
                 \X OrNull(campaignsOfMonth(campaigns, o, now))
        current_contacts == CountDistinct(J, 1)
        emails_sent_this_month == SumSendCount(J)
    IN /\ resp.kind = "none"
       /\ resp' = [kind |-> "usage", status |-> 200, caller |-> c,
                   contact_limit |-> organizations[o].contact_limit,
                   monthly_email_limit |-> organizations[o].monthly_email_limit,
                   current_contacts |-> current_contacts,
                   emails_sent_this_month |-> emails_sent_this_month,
                   usage_percentages |->
                       [contacts |-> Percentage(current_contacts,
                                        organizations[o].contact_limit),
                        emails |-> Percentage(emails_sent_this_month,
                                        organizations[o].monthly_email_limit)]]
       /\ UNCHANGED <<users, invitations, nextInvId, audit_logs, organizations,
                      contacts, campaigns, organization_settings, now, reqs,
                      answered, admitted, registered, http, auth>>

\* The databases the two reads are tried on: users 3 and 4 active or not,
\* the limits of organization 1, any contacts and campaigns of the pools,
\* or 25 active contacts of organization 1.
Limits == {0, 100}

UsageNow == 2 * MonthHours

ContactPool == {ContactRow(1, 1, "active"), ContactRow(2, 1, "active"),
                ContactRow(3, 1, "inactive"), ContactRow(4, 2, "active")}

ManyContacts == {ContactRow(100 + i, 1, "active") : i \in 1..25}

CampaignPool == {CampaignRow(1, 1, UsageNow - 24, 10),
                 CampaignRow(2, 1, UsageNow - MonthHours - 24, 5),
                 CampaignRow(3, 1, Null, 0),
                 CampaignRow(4, 2, UsageNow - 24, 7)}

InitOrg ==
    /\ \E s3, s4 \in {"active", "inactive"} :
          users = <<UserRow(1, "a", "admin", "active"),
                    UserRow(2, "b", "admin", "active"),
                    UserRow(1, "c", "user", s3),
                    UserRow(2, "d", "user", s4)>>
    /\ \E cl, el \in Limits :
          organizations = <<OrganizationRow("org", "free", cl, el),
                            OrganizationRow("org", "free", 100, 1000)>>
    /\ contacts \in (SUBSET ContactPool) \cup {ManyContacts}
    /\ campaigns \in SUBSET CampaignPool
    /\ now = UsageNow
    /\ invitations = {} /\ nextInvId = 1 /\ audit_logs = <<>>
    /\ reqs = EmptyBag /\ resp = NoResp /\ answered = {} /\ admitted = 0
    /\ registered = {} /\ http = NoHttp
    /\ organization_settings = {} /\ auth = NoAuth

NextOrg ==
    \/ \E c \in Callers : GetOrganization(c)
    \/ \E c \in Callers : Usage(c)

SpecOrg == InitOrg /\ [][NextOrg]_vars

\* the rows of a table that belong to organization o, and the others
Own(T, o) == {x \in T : x.organization_id = o}

Others(T, o) == {x \in T : x.organization_id # o}

\* the sets of other organizations' rows a database may hold in place of
\* those of T: every subset of them, or none and all when they are many
OtherRows(T, o) ==
    IF Cardinality(Others(T, o)) > Cardinality(ContactPool)
    THEN {{}, Others(T, o)}
    ELSE SUBSET Others(T, o)

\* C5: the response of GET /api/organizations to a caller of organization
\* O is the organization row of O with the counts of the active users, the
\* contacts and the campaigns whose organization_id is O, and it is the
\* response every database gives that has the same rows of O and any
\* subset of the rows of the other organizations.
C5_TenantIsolation ==
    resp.kind = "organization" =>
        LET o == OrgOf(resp.caller)
        IN /\ resp.status = 200
           /\ resp.body.id = o
           /\ resp.body.row = organizations[o]
           /\ resp.body.user_count =
                  Cardinality({u \in Own(UserRows, o) : u.status = "active"})
           /\ resp.body.contact_count = Cardinality(Own(contacts, o))
           /\ resp.body.campaign_count = Cardinality(Own(campaigns, o))
           /\ \A os \in SUBSET {x \in OrganizationRows : x.id # o},
                 us \in OtherRows(UserRows, o),
                 cs \in OtherRows(contacts, o),
                 ms \in OtherRows(campaigns, o) :
                  OrganizationDetails({x \in OrganizationRows : x.id = o} \cup os,
                                      Own(UserRows, o) \cup us,
                                      Own(contacts, o) \cup cs,
                                      Own(campaigns, o) \cup ms, o) = {resp.body}

\* organization 1 is read while organization 2 holds an active user beside
\* its administrator, a contact and a campaign, and organization 1 holds
\* contacts and campaigns of its own
C5_ReadBesideOtherTenant ==
    /\ resp.kind = "organization" /\ resp.caller = 1
    /\ resp.body.contact_count = 2 /\ resp.body.campaign_count = 3
    /\ users[4].status = "active"
    /\ Others(contacts, 1) # {} /\ Others(campaigns, 1) # {}

\* the send counts of the campaigns in S, added up
RECURSIVE TotalSent(_)
TotalSent(S) ==
    IF S = {} THEN 0
    ELSE LET m == CHOOSE x \in S : TRUE
         IN m.send_count + TotalSent(S \ {m})

\* the percentage p is x * 100 / limit, or 0 when the limit is 0
IsPercentageOf(p, x, limit) ==
    IF limit = 0 THEN p.num = 0 /\ p.den # 0
    ELSE p.den # 0 /\ p.num * limit = x * 100 * p.den

\* C10: GET /api/organizations/usage never divides by zero:
\* usage_percentages.contacts is 0 when contact_limit is 0 and
\* current_contacts * 100 / contact_limit otherwise, current_contacts being
\* the number of active contacts of the organization, and
\* usage_percentages.emails is the same from monthly_email_limit and the
\* emails sent in the trailing month, the sum of send_count over the
\* organization's campaigns sent in that month.
C10_UsagePercentages ==
    resp.kind = "usage" =>
        LET o == OrgOf(resp.caller)
        IN /\ resp.current_contacts =
                  Cardinality({c \in Own(contacts, o) : c.status = "active"})
           /\ IsPercentageOf(resp.usage_percentages.contacts,
                             resp.current_contacts,
                             organizations[o].contact_limit)
           /\ IsPercentageOf(resp.usage_percentages.emails,
                             TotalSent(campaignsOfMonth(campaigns, o, now)),
                             organizations[o].monthly_email_limit)

-----------------------------------------------------------------------------
(* GET /api/organizations/audit-logs *)

MaxLog == 4         \* audit entries a behaviour may add to a short log

\* parseInt(req.query.page) || 1: NaN and 0 are falsy
PageOf(str) ==
    LET n == ParseInt(str) IN IF n.nan \/ n.val = 0 THEN 1 ELSE n.val

\* parseInt(req.query.limit) || 50
LimitOf(str) ==
    LET n == ParseInt(str) IN IF n.nan \/ n.val = 0 THEN 50 ELSE n.val

\* an offset that skips one page too many
Offset_nextPage(page, limit) == page * limit

\* const offset = (page - 1) * limit
Offset(page, limit) == (page - 1) * limit

Min(a, b) == IF a <= b THEN a ELSE b

Max(a, b) == IF a >= b THEN a ELSE b

\* the entries of organization o, oldest first: audit_logs holds the
\* entries in the order of their timestamps
LogsOf(o) ==
    LET Keep(e) == e.organization_id = o IN SelectSeq(audit_logs, Keep)

\* ... WHERE al.organization_id = ? ORDER BY al.timestamp DESC
\*     LIMIT ? OFFSET ?
PageRows(o, limit, offset) ==
    LET mine == LogsOf(o)
        n == Len(mine)
        k == Max(0, Min(limit, n - offset))
    IN [i \in 1..k |-> mine[n - offset - i + 1]]

\* Math.ceil(total / limit), limit > 0
Ceil(total, limit) == (total + limit - 1) \div limit

\* the handler up to its first query; MySQL rejects a negative LIMIT or
\* OFFSET and the catch block answers 500
AuditLogs(c, pageStr, limitStr) ==
    LET o == users[c].organization_id
        page == PageOf(pageStr)
        limit == LimitOf(limitStr)
        offset == Offset(page, limit)
        r == [kind |-> "audit-logs", caller |-> c, org |-> o,
              pageStr |-> pageStr, limitStr |-> limitStr,
              page |-> page, limit |-> limit]
    IN /\ BagCardinality(reqs) = 0
       /\ IF limit < 0 \/ offset < 0
          THEN /\ resp' = r @@ [status |-> 500,
                                error |-> "Failed to fetch audit logs"]
               /\ UNCHANGED reqs
          ELSE /\ reqs' = SetToBag({r @@ [logs |-> PageRows(o, limit, offset),
                                          seen |-> Len(LogsOf(o))]})
               /\ resp' = NoResp
       /\ UNCHANGED <<users, invitations, nextInvId, audit_logs, organizations,
                      contacts, campaigns, organization_settings, now, answered,
                      admitted, registered, http, auth>>

\* SELECT COUNT(*) as total FROM audit_logs WHERE organization_id = ?
\* and the response
AuditLogsCount(r) ==
    LET total == Len(LogsOf(r.org))
    IN /\ BagIn(r, reqs) /\ r.kind = "audit-logs"
       /\ reqs' = reqs (-) SetToBag({r})
       /\ resp' = [kind |-> "audit-logs", status |-> 200, caller |-> r.caller,
                   org |-> r.org, pageStr |-> r.pageStr,
                   limitStr |-> r.limitStr, logs |-> r.logs, seen |-> r.seen,
                   pagination |-> [page |-> r.page, limit |-> r.limit,
                                   total |-> total,
                                   pages |-> Ceil(total, r.limit)]]
       /\ UNCHANGED <<users, invitations, nextInvId, audit_logs, organizations,
                      contacts, campaigns, organization_settings, now, answered,
                      admitted, registered, http, auth>>

\* a mutating request of a user of organization o writes its audit entry
AppendEntry(o) ==
    /\ Len(audit_logs) < MaxLog
    /\ audit_logs' = Append(audit_logs,
           AuditRow(o, o, "settings_updated", "organization",
                    Len(audit_logs) + 1, <<>>, <<>>))
    /\ resp' = NoResp
    /\ UNCHANGED <<users, invitations, nextInvId, organizations, contacts,
                   campaigns, organization_settings, now, reqs, answered,
                   admitted, registered, http, auth>>

\* the query parameters; <<>>: the parameter is missing
PageParams == {<<>>, <<"1">>, <<"2">>, <<"3">>, <<"0">>, <<"-", "1">>, <<"x">>}

LimitParams == {<<>>, <<"1">>, <<"2">>, <<"5", "0">>, <<"0">>, <<"2", "x">>}

\* a log of 130 entries, 120 of organization 1 and 10 of organization 2
ExampleLog ==
    [i \in 1..130 |->
        AuditRow(IF i % 13 = 0 THEN 2 ELSE 1, 1, "settings_updated",
                 "organization", i, <<>>, <<>>)]

InitPage ==
    /\ users = <<UserRow(1, "a", "admin", "active"),
                 UserRow(2, "b", "admin", "active")>>
    /\ audit_logs \in {<<>>, ExampleLog}
    /\ organizations = [o \in Orgs |-> OrganizationRow("org", "free", 100, 1000)]
    /\ invitations = {} /\ nextInvId = 1 /\ contacts = {} /\ campaigns = {}
    /\ now = 0 /\ reqs = EmptyBag /\ resp = NoResp /\ answered = {}
    /\ admitted = 0 /\ registered = {} /\ http = NoHttp
    /\ organization_settings = {} /\ auth = NoAuth

NextPage ==
    \/ \E c \in Callers, p \in PageParams, l \in LimitParams : AuditLogs(c, p, l)
    \/ \E r \in BagToSet(reqs) : AuditLogsCount(r)
    \/ \E o \in Orgs : AppendEntry(o)

SpecPage == InitPage /\ [][NextPage]_vars

\* C9: a response of GET /api/organizations/audit-logs has page p >= 1 and
\* limit l >= 1, 1 and 50 when the parameter is missing and the parameter's
\* number when it is one; with S the number of entries the organization
\* held when the page was read and T the number it holds when they are
\* counted (S = T unless an entry was written in between), the response
\* carries min(l, max(0, S - (p-1)*l)) entries, those ranked (p-1)*l+1 ..
\* min(p*l, S) newest first, total = T and pages = ceil(T / l); 120 entries
\* with l = 50 and p = 1 give 50 rows and pages = 3.
C9_Pagination ==
    (resp.kind = "audit-logs" /\ resp.status = 200) =>
        LET p == resp.pagination.page
            l == resp.pagination.limit
            mine == LogsOf(resp.org)
            T == Len(mine)
            S == resp.seen
        IN /\ p >= 1 /\ l >= 1
           /\ resp.pageStr = <<>> => p = 1
           /\ resp.limitStr = <<>> => l = 50
           /\ \A n \in 1..3 : resp.pageStr = <<Digits[n + 1]>> => p = n
           /\ \A n \in 1..2 : resp.limitStr = <<Digits[n + 1]>> => l = n
           /\ resp.limitStr = <<"5", "0">> => l = 50
           /\ Len(resp.logs) = Min(l, Max(0, S - (p - 1) * l))
           /\ \A k \in 1..Len(resp.logs) :
                  resp.logs[k] = mine[S - ((p - 1) * l + k) + 1]
           /\ resp.pagination.total = T
           /\ resp.pagination.pages * l >= T
           /\ (resp.pagination.pages - 1) * l < T
           /\ (S = 120 /\ T = 120 /\ l = 50 /\ p = 1) =>
                  Len(resp.logs) = 50 /\ resp.pagination.pages = 3

\* the first page of 120 entries with the default limit: 50 rows, the
\* newest first, and 3 pages
C9_FirstPageOf120 ==
    /\ resp.kind = "audit-logs" /\ resp.status = 200
    /\ resp.pageStr = <<"1">> /\ resp.limitStr = <<>>
    /\ resp.pagination = [page |-> 1, limit |-> 50, total |-> 120, pages |-> 3]
    /\ Len(resp.logs) = 50
    /\ resp.logs[1].resource_id = 129 /\ resp.logs[50].resource_id = 76

-----------------------------------------------------------------------------
(* Expiry of an invitation *)

\* every invitation row carrying token t has reached its expiry
Expired(t) ==
    /\ \E inv \in invitations : inv.token = t
    /\ \A inv \in invitations : inv.token = t => inv.expires_at <= now

\* no invitation of email e in organization o is short of its expiry
AllExpired(e, o) ==
    \A inv \in invitations :
        inv.email = e /\ inv.organization_id = o => inv.expires_at <= now

\* the ids of the invitation rows
InvitationIdsOf(T) == {inv.id : inv \in T}

\* C11: an invitation expires 7 days (7 * 24 hours) after the invite handler
\* creates it.  An accept-invitation request whose lookup runs at or after
\* expires_at is answered 400 and leaves users, user_invitations (so every
\* accepted_at) and audit_logs as they were.  The passing of time changes
\* no invitation row, and a row leaves the table only by the DELETE of a
\* cancellation.  An invite whose check finds only expired invitations of
\* its email in its organization is not turned away by them: it goes on to
\* insert a new invitation.
C11_ExpiredInvitationUnusable ==
    /\ [][\A r \in BagToSet(reqs) :
            InviteCheck(r) /\ resp'.kind = "none" =>
                \A n \in BagToSet(reqs') :
                    n.kind = "invite" /\ n.pc = "insertInvitation"
                        /\ CopiesIn(n, reqs') > CopiesIn(n, reqs)
                    => n.loc.expires = now + 7 * 24]_vars
    /\ [][\A r \in BagToSet(reqs) :
            InviteInsert(r) =>
                \E inv \in invitations' \ invitations :
                    /\ invitations' = invitations \cup {inv}
                    /\ inv.expires_at = r.loc.expires
                    /\ inv.accepted_at = Null]_vars
    /\ [][\A t \in Tokens, f \in BOOLEAN :
            AcceptInvitation(t, f) /\ Expired(t) =>
                /\ resp'.kind = "accept" /\ resp'.status = 400
                /\ reqs' = reqs
                /\ users' = users
                /\ invitations' = invitations
                /\ audit_logs' = audit_logs]_vars
    /\ [][now' # now => invitations' = invitations]_vars
    /\ [][InvitationIdsOf(invitations) \subseteq InvitationIdsOf(invitations')
          \/ \E r \in BagToSet(reqs) : CancelDelete(r)]_vars
    /\ [][\A r \in BagToSet(reqs) :
            InviteCheck(r) /\ AllExpired(r.email, r.org) =>
                /\ resp'.kind = "none"
                /\ \E n \in BagToSet(reqs') :
                       /\ n.kind = "invite" /\ n.pc = "insertInvitation"
                       /\ n.email = r.email /\ n.org = r.org]_vars

\* an acceptance of an expired, never accepted invitation has just been
\* answered 400, the row is still in the table, and a later invite of the
\* same email in the same organization has created a second invitation
C11_ExpiredThenInvitedAgain ==
    /\ resp.kind = "accept" /\ resp.status = 400
    /\ resp.body = "Invalid or expired invitation"
    /\ \E old \in invitations, new \in invitations :
           /\ old.token = resp.token
           /\ old.accepted_at = Null
           /\ old.expires_at <= now
           /\ new.id # old.id
           /\ new.email = old.email
           /\ new.organization_id = old.organization_id
           /\ new.created_at >= old.expires_at
           /\ new.expires_at > now

-----------------------------------------------------------------------------
(* One user for each email *)

\* C12: in every reachable state no two rows of users have the same email,
\* whatever the order and interleaving of the invite and accept-invitation
\* requests, with invitations of one email held by two organizations and
\* with acceptances that overlap.
C12_EmailsUnique ==
    \A i \in DOMAIN users, j \in DOMAIN users :
        users[i].email = users[j].email => i = j

\* two organizations invited one email and the two acceptances overlapped:
\* both passed the lookup, one created the user, the other was answered 500
C12_SecondOrganizationLost ==
    \E t \in Tokens, u \in Tokens :
        /\ <<t, 200>> \in answered
        /\ <<u, 500>> \in answered
        /\ \E inv \in invitations, other \in invitations :
               /\ inv.token = t /\ other.token = u
               /\ inv.email = other.email
               /\ inv.organization_id # other.organization_id
               /\ Cardinality(existingUsers(inv.email)) = 1

-----------------------------------------------------------------------------
(* The roles in the tables *)

\* C13: in every reachable state the role of every user and of every
\* invitation is one of admin, manager and user, and a role update that
\* carries another role has been answered 400.
C13_RolesInEnum ==
    /\ \A i \in DOMAIN users : users[i].role \in Roles
    /\ \A inv \in invitations : inv.role \in Roles
    /\ (resp.kind = "role" /\ resp.role \notin Roles) => resp.status = 400

-----------------------------------------------------------------------------
(* Users are deactivated, never removed *)

\* C14: no step removes a row of users (every id of the table is an id of
\* the table after the step, with its email and organization), a user whose
\* status is 'inactive' is 'inactive' after every step, and the UPDATE of a
\* deactivation leaves every user it names 'inactive', the ones that
\* already were included.
C14_NeverRemovedOrReactivated ==
    [][/\ DOMAIN users \subseteq DOMAIN users'
       /\ \A i \in DOMAIN users :
              /\ users'[i].email = users[i].email
              /\ users'[i].organization_id = users[i].organization_id
              /\ users[i].status = "inactive" => users'[i].status = "inactive"
       /\ \A r \in BagToSet(reqs) :
              DeactivateSet(r) =>
                  \A i \in DOMAIN users :
                      SqlIdEq(i, r.param) => users'[i].status = "inactive"]_vars

\* a second deactivation of a user has finished: its UPDATE changed no row,
\* the user is 'inactive' and no row went
C14_DeactivatedTwice ==
    /\ resp.kind = "deactivate" /\ resp.status = 200 /\ ~resp.changed
    /\ Len(users) >= 3
    /\ \E i \in DOMAIN users :
           SqlIdEq(i, resp.param) /\ users[i].status = "inactive"

-----------------------------------------------------------------------------
(* Acceptance and cancellation *)

\* C15: the rows a step removes from user_invitations are rows that were
\* not accepted (accepted_at is NULL), and a row whose accepted_at is set
\* is in the table, unchanged, after every step.
C15_AcceptedInvitationKept ==
    [][/\ \A inv \in invitations \ invitations' :
              (\A j \in invitations' : j.id # inv.id) => inv.accepted_at = Null
       /\ \A inv \in invitations :
              inv.accepted_at # Null => inv \in invitations']_vars

-----------------------------------------------------------------------------
(* GET and PUT /api/organizations/settings *)

SettingRow(o, k, v) ==
    [organization_id |-> o, setting_key |-> k, setting_value |-> v]

\* (organization_id, setting_key) is the key of organization_settings
\* (spec, data model: "composite key (organization_id, setting_key)")
SameKey(row, o, k) == row.organization_id = o /\ row.setting_key = k

\* an INSERT IGNORE: the row that is present keeps its value
Upsert_keepExisting(T, o, k, v) ==
    IF \E row \in T : SameKey(row, o, k) THEN T
    ELSE T \cup {SettingRow(o, k, v)}

\* INSERT INTO organization_settings ... VALUES (?, ?, ?)
\* ON DUPLICATE KEY UPDATE setting_value = VALUES(setting_value)
Upsert(T, o, k, v) ==
    {row \in T : ~SameKey(row, o, k)} \cup {SettingRow(o, k, v)}

\* settings.forEach(setting => settingsObj[setting.setting_key] = ...)
settingsObj(rows) ==
    [k \in {row.setting_key : row \in rows} |->
        (CHOOSE row \in rows : row.setting_key = k).setting_value]

settingsOf(o) == {row \in organization_settings : row.organization_id = o}

\* The handler of PUT /settings with body S: the entries of S in the order
\* of Object.entries, the ones not yet written in rest.  before, logged,
\* others and started record the tables and the handlers in flight as the
\* request found them; the code does not read them.
SettingsRequest(c, S) ==
    [kind |-> "settings_put", caller |-> c, org |-> users[c].organization_id,
     settings |-> S, rest |-> S, pc |-> "start",
     before |-> organization_settings, logged |-> Len(audit_logs),
     others |-> BagCardinality(reqs), started |-> admitted]

\* The next statement of the handler r: the upsert of the next entry, or,
\* all entries written, the INSERT into audit_logs and the response.
SettingsStatement(r) ==
    IF r.rest # <<>>
    THEN /\ organization_settings' =
                Upsert(organization_settings, r.org, r.rest[1][1], r.rest[1][2])
         /\ reqs' = (reqs (-) SetToBag({r}))
                        (+) SetToBag({[r EXCEPT !.rest = Tail(r.rest),
                                                !.pc = "next"]})
         /\ resp' = NoResp
         /\ UNCHANGED audit_logs
    ELSE /\ audit_logs' = Append(audit_logs,
                AuditRow(r.org, r.caller, "settings_updated",
                         "organization_settings", NoId, <<>>, r.settings))
         /\ reqs' = reqs (-) SetToBag({r})
         /\ resp' = [kind |-> r.kind, at |-> "audit", status |-> 200,
                     body |-> "Settings updated successfully",
                     caller |-> r.caller, org |-> r.org,
                     settings |-> r.settings, before |-> r.before,
                     logged |-> r.logged,
                     alone |-> r.others = 0 /\ admitted' = r.started + 1]
         /\ UNCHANGED organization_settings

SettingsFrame ==
    UNCHANGED <<users, invitations, nextInvId, organizations, contacts,
                campaigns, now, answered, registered, http, auth>>

PutSettings(c, S) ==
    /\ CanStart
    /\ admitted' = admitted + 1
    /\ SettingsStatement(SettingsRequest(c, S))
    /\ SettingsFrame

PutSettingsNext(r) ==
    /\ ~Rejected /\ BagIn(r, reqs) /\ r.kind = "settings_put"
    /\ UNCHANGED admitted
    /\ SettingsStatement(r)
    /\ SettingsFrame

GetSettings(c) ==
    /\ CanStart
    /\ resp' = [kind |-> "settings_get", at |-> "start", status |-> 200,
                caller |-> c, org |-> users[c].organization_id,
                body |-> settingsObj(settingsOf(users[c].organization_id))]
    /\ UNCHANGED <<organization_settings, audit_logs, reqs, admitted>>
    /\ SettingsFrame

SettingKeys == {"theme", "lang"}

SettingValues == {"a", "b"}

SettingEntries == SettingKeys \X SettingValues

\* the bodies: no entry, one entry, two entries of different keys
SettingBodies ==
    {<<>>} \cup {<<e>> : e \in SettingEntries}
           \cup {p \in SettingEntries \X SettingEntries : p[1][1] # p[2][1]}

InitialSettings ==
    {SettingRow(1, "theme", "a"), SettingRow(2, "theme", "a"),
     SettingRow(2, "lang", "b")}

InitSettings ==
    /\ users = <<UserRow(1, "a", "admin", "active"),
                 UserRow(2, "b", "admin", "active")>>
    /\ organization_settings \in {{}, InitialSettings}
    /\ audit_logs = <<>>
    /\ organizations = [o \in Orgs |-> OrganizationRow("org", "free", 100, 1000)]
    /\ invitations = {} /\ nextInvId = 1 /\ contacts = {} /\ campaigns = {}
    /\ now = 0 /\ reqs = EmptyBag /\ resp = NoResp /\ answered = {}
    /\ admitted = 0 /\ registered = {} /\ http = NoHttp /\ auth = NoAuth

NextSettings ==
    \/ \E c \in Callers, S \in SettingBodies : PutSettings(c, S)
    \/ \E r \in BagToSet(reqs) : PutSettingsNext(r)
    \/ \E c \in Callers : GetSettings(c)

SpecSettings == InitSettings /\ [][NextSettings]_vars

\* the keys of the body S
KeysOf(S) == {S[i][1] : i \in DOMAIN S}

\* the table T with, for organization o, the value S[k] under every key k
\* of S, and every other row as it is in T
Applied(T, o, S) ==
    {row \in T : row.organization_id # o \/ row.setting_key \notin KeysOf(S)}
        \cup {SettingRow(o, S[i][1], S[i][2]) : i \in DOMAIN S}

\* a PUT /settings has just been answered 200 and no other PUT /settings
\* was in flight between its arrival and its response
PutAlone == resp.kind = "settings_put" /\ resp.status = 200 /\ resp.alone

\* C16: a PUT /settings with body S that no other PUT /settings overlaps
\* leaves the table as it found it except that the caller's organization
\* has the value S[k] under every key k of S, and leaves the audit log as
\* it found it with one 'settings_updated' entry carrying S appended; so a
\* PUT of a body the table already agrees with changes no setting.  A GET
\* /settings returns the caller's organization's keys with their values,
\* and the GET that follows such a PUT by the same organization returns
\* S[k] for every k of S.  Under any interleaving, a step that writes
\* organization_settings writes one row, of the organization and with a
\* key and value of the body of a handler in flight, and leaves every other
\* row and the audit log as they were; a step that writes audit_logs
\* appends one entry and leaves the settings as they were.
C16_SettingsUpsert ==
    /\ [](PutAlone =>
            /\ organization_settings =
                   Applied(resp.before, resp.org, resp.settings)
            /\ Len(audit_logs) = resp.logged + 1
            /\ audit_logs[Len(audit_logs)] =
                   AuditRow(resp.org, resp.caller, "settings_updated",
                            "organization_settings", NoId, <<>>, resp.settings)
            /\ (\A i \in DOMAIN resp.settings :
                    SettingRow(resp.org, resp.settings[i][1],
                               resp.settings[i][2]) \in resp.before)
                    => organization_settings = resp.before)
    /\ [](resp.kind = "settings_get" =>
            /\ resp.status = 200
            /\ DOMAIN resp.body = {row.setting_key : row \in settingsOf(resp.org)}
            /\ \A row \in settingsOf(resp.org) :
                   resp.body[row.setting_key] = row.setting_value)
    /\ [][(PutAlone /\ resp'.kind = "settings_get" /\ resp'.org = resp.org) =>
            \A i \in DOMAIN resp.settings :
                /\ resp.settings[i][1] \in DOMAIN resp'.body
                /\ resp'.body[resp.settings[i][1]] = resp.settings[i][2]]_vars
    /\ [][organization_settings' # organization_settings =>
            /\ audit_logs' = audit_logs
            /\ \E r \in BagToSet(reqs'), i \in 1..2 :
                   /\ r.kind = "settings_put" /\ i \in DOMAIN r.settings
                   /\ organization_settings' =
                          Upsert(organization_settings, r.org,
                                 r.settings[i][1], r.settings[i][2])]_vars
    /\ [][audit_logs' # audit_logs =>
            /\ organization_settings' = organization_settings
            /\ Len(audit_logs') = Len(audit_logs) + 1
            /\ SubSeq(audit_logs', 1, Len(audit_logs)) = audit_logs
            /\ audit_logs'[Len(audit_logs')].action = "settings_updated"]_vars

\* a PUT of two keys, one of them present with another value, was followed
\* by a GET of the same organization: the GET returned both values, the
\* other organization's rows are in the table and the log has the PUT's
\* one entry
C16_ReadAfterWrite ==
    /\ resp.kind = "settings_get" /\ resp.org = 1
    /\ resp.body = [k \in SettingKeys |-> "b"]
    /\ Len(audit_logs) = 1
    /\ audit_logs[1].action = "settings_updated"
    /\ audit_logs[1].organization_id = 1
    /\ Len(audit_logs[1].new_values) = 2
    /\ settingsOf(2) = {SettingRow(2, "theme", "a"), SettingRow(2, "lang", "b")}

-----------------------------------------------------------------------------
(* PUT /api/organizations *)

\* SELECT name, plan FROM organizations WHERE id = ?
NameAndPlan(o) ==
    [name |-> organizations[o].name, plan |-> organizations[o].plan]

\* The handler of PUT / with body {name, plan}.  currentOrg is the row the
\* SELECT returned; prior records the row the UPDATE replaced, which the
\* code does not read.
UpdateOrganization(c, name, plan) ==
    LET o == users[c].organization_id
        r == [kind |-> "org_update", caller |-> c, org |-> o, name |-> name,
              plan |-> plan, pc |-> "start", currentOrg |-> NameAndPlan(o),
              prior |-> NameAndPlan(o)]
    IN /\ CanStart
       /\ IF name = ""
          THEN /\ resp' = [kind |-> r.kind, at |-> "start", status |-> 400,
                           body |-> "Organization name is required",
                           caller |-> c, org |-> o]
               /\ UNCHANGED <<reqs, admitted>>
          ELSE Admit(r, "update")
       /\ UNCHANGED <<organizations, audit_logs, users, invitations, nextInvId,
                      contacts, campaigns, organization_settings, now,
                      answered, registered, http, auth>>

\* UPDATE organizations SET name = ?, plan = ? WHERE id = ?
UpdateOrganizationSet(r) ==
    /\ At(r, "org_update", "update")
    /\ organizations' = [organizations EXCEPT ![r.org].name = r.name,
                                              ![r.org].plan = r.plan]
    /\ Await(r, [r EXCEPT !.prior = NameAndPlan(r.org)], "audit")
    /\ UNCHANGED <<audit_logs, users, invitations, nextInvId, contacts,
                   campaigns, organization_settings, now, answered,
                   registered, http, auth>>

\* INSERT INTO audit_logs ... 'organization_updated' ...
\* JSON.stringify(currentOrg[0]), JSON.stringify({ name, plan })
UpdateOrganizationAudit(r) ==
    /\ At(r, "org_update", "audit")
    /\ audit_logs' = Append(audit_logs,
           AuditRow(r.org, r.caller, "organization_updated", "organization",
                    r.org, r.currentOrg, [name |-> r.name, plan |-> r.plan]))
    /\ reqs' = reqs (-) SetToBag({r})
    /\ resp' = [kind |-> r.kind, at |-> "audit", status |-> 200,
                body |-> "Organization updated successfully",
                caller |-> r.caller, org |-> r.org]
    /\ UNCHANGED <<admitted, organizations, users, invitations, nextInvId,
                   contacts, campaigns, organization_settings, now, answered,
                   registered, http, auth>>

OrganizationNames == {"", "acme", "zeta"}      \* "": the body has no name

Plans == {"free", "pro"}

InitOrgUpdate ==
    /\ users = <<UserRow(1, "a", "admin", "active"),
                 UserRow(2, "b", "admin", "active")>>
    /\ organizations = [o \in Orgs |-> OrganizationRow("org", "free", 100, 1000)]
    /\ audit_logs = <<>> /\ organization_settings = {}
    /\ invitations = {} /\ nextInvId = 1 /\ contacts = {} /\ campaigns = {}
    /\ now = 0 /\ reqs = EmptyBag /\ resp = NoResp /\ answered = {}
    /\ admitted = 0 /\ registered = {} /\ http = NoHttp /\ auth = NoAuth

NextOrgUpdate ==
    \/ \E c \in Callers, n \in OrganizationNames, pl \in Plans :
           UpdateOrganization(c, n, pl)
    \/ \E r \in BagToSet(reqs) : UpdateOrganizationSet(r)
    \/ \E r \in BagToSet(reqs) : UpdateOrganizationAudit(r)

SpecOrgUpdate == InitOrgUpdate /\ [][NextOrgUpdate]_vars

\* C17: the 'organization_updated' entry a PUT / writes carries as
\* old_values the name and plan the organization had immediately before the
\* request's UPDATE and as new_values the name and plan the UPDATE wrote,
\* whatever the interleaving of the requests; a PUT / without a name is
\* answered 400 and leaves organizations and audit_logs as they were.
C17_AuditRecordsPriorValues ==
    /\ [][\A r \in BagToSet(reqs) :
            UpdateOrganizationAudit(r) =>
                /\ audit_logs'[Len(audit_logs')].old_values = r.prior
                /\ audit_logs'[Len(audit_logs')].new_values =
                       [name |-> r.name, plan |-> r.plan]]_vars
    /\ [][\A c \in Callers, pl \in Plans :
            UpdateOrganization(c, "", pl) =>
                /\ resp'.status = 400
                /\ UNCHANGED <<organizations, audit_logs>>]_vars

-----------------------------------------------------------------------------
(* The AuthProvider of src/contexts/AuthContext.tsx *)

MaxLogins == 2      \* login calls a behaviour may start

NoToken == "null"   \* null: no token, no item in localStorage, no user

AuthTokens == {"t0", "t1"}

\* the user object the server returns with, or for, the token t
UserOf(t) == IF t = "t0" THEN "user of t0" ELSE "user of t1"

\* The provider before its effect has run: user and token are null,
\* loading is true; stored is localStorage's item 'token'; me is the state
\* of the fetchCurrentUser call ("none", "flight", "done"), logins the
\* number of login calls awaiting the server's response, started the number
\* of login calls made, last the operation that ran last.
Unmounted(saved) ==
    [pc |-> "unmounted", user |-> NoToken, token |-> NoToken,
     stored |-> saved, loading |-> TRUE, me |-> "none", meToken |-> NoToken,
     logins |-> 0, started |-> 0, last |-> "none"]

AuthStep(a) ==
    /\ auth' = a
    /\ UNCHANGED <<users, invitations, nextInvId, audit_logs, organizations,
                   contacts, campaigns, organization_settings, now, reqs, resp,
                   answered, admitted, registered, http>>

\* useEffect(() => {...}, []): with a saved token, setToken and the call of
\* fetchCurrentUser up to its await fetch; without, setLoading(false)
Mount ==
    /\ auth.pc = "unmounted"
    /\ AuthStep(IF auth.stored # NoToken
                THEN [auth EXCEPT !.pc = "mounted", !.token = auth.stored,
                                  !.me = "flight", !.meToken = auth.stored,
                                  !.last = "mount"]
                ELSE [auth EXCEPT !.pc = "mounted", !.loading = FALSE,
                                  !.last = "mount"])

\* fetchCurrentUser: response.ok with a body that parses: setUser(userData)
FetchCurrentUserOk ==
    /\ auth.pc = "mounted" /\ auth.me = "flight"
    /\ AuthStep([auth EXCEPT !.user = UserOf(auth.meToken), !.loading = FALSE,
                             !.me = "done", !.last = "me ok"])

\* fetchCurrentUser: the response is not ok, or fetch or JSON.parse throws,
\* or the body is empty: localStorage.removeItem('token'); setToken(null)
FetchCurrentUserFails ==
    /\ auth.pc = "mounted" /\ auth.me = "flight"
    /\ AuthStep([auth EXCEPT !.stored = NoToken, !.token = NoToken,
                             !.loading = FALSE, !.me = "done",
                             !.last = "me failed"])

\* login(email, password) up to its await fetch
Login ==
    /\ auth.pc = "mounted" /\ auth.started < MaxLogins
    /\ AuthStep([auth EXCEPT !.logins = @ + 1, !.started = @ + 1,
                             !.last = "login"])

\* login: the response is ok and parses to {token, user}
LoginOk(t) ==
    /\ auth.pc = "mounted" /\ auth.logins > 0
    /\ AuthStep([auth EXCEPT !.stored = t, !.token = t, !.user = UserOf(t),
                             !.logins = @ - 1, !.last = "login ok"])

\* login: the response is not ok, empty or does not parse: login throws
LoginFails ==
    /\ auth.pc = "mounted" /\ auth.logins > 0
    /\ AuthStep([auth EXCEPT !.logins = @ - 1, !.last = "login failed"])

\* logout()
Logout ==
    /\ auth.pc = "mounted"
    /\ AuthStep([auth EXCEPT !.stored = NoToken, !.token = NoToken,
                             !.user = NoToken, !.last = "logout"])

InitAuth ==
    /\ auth \in {Unmounted(t) : t \in AuthTokens \cup {NoToken}}
    /\ users = <<>> /\ invitations = {} /\ nextInvId = 1 /\ audit_logs = <<>>
    /\ organizations = <<>> /\ contacts = {} /\ campaigns = {} /\ now = 0
    /\ organization_settings = {}
    /\ reqs = EmptyBag /\ resp = NoResp /\ answered = {} /\ admitted = 0
    /\ registered = {} /\ http = NoHttp

NextAuth ==
    \/ Mount
    \/ FetchCurrentUserOk
    \/ FetchCurrentUserFails
    \/ Login
    \/ \E t \in AuthTokens : LoginOk(t)
    \/ LoginFails
    \/ Logout

SpecAuth == InitAuth /\ [][NextAuth]_vars

\* no login and no fetchCurrentUser call is awaiting its response
AuthQuiet == auth.pc = "mounted" /\ auth.me # "flight" /\ auth.logins = 0

\* C18: whenever no login and no fetchCurrentUser call is in flight, a
\* user that is not null comes with a token that is not null and is the
\* token in localStorage; and when logout has just run, user, token and the
\* stored token are null.
C18_UserOnlyWithToken ==
    /\ (AuthQuiet /\ auth.user # NoToken) =>
           (auth.token # NoToken /\ auth.stored = auth.token)
    /\ auth.last = "logout" =>
           (auth.user = NoToken /\ auth.token = NoToken /\ auth.stored = NoToken)


=============================================================================
